---- MODULE Spec2Model ----
(***************************************************************************)
(* Karnaugh-map (sum-of-products) minimiser of src/lib/kmap.ts, called     *)
(* through the POST handler of /app/api/kmap/route.ts.                     *)
(*                                                                         *)
(* JavaScript strings are modelled as sequences of one-character strings,  *)
(* so that '10-' is <<"1","0","-">>.  Array indices are 1-based here and   *)
(* 0-based in the source; prime implicant index i of the model is index    *)
(* i-1 of the source.                                                      *)
(***************************************************************************)
EXTENDS Integers, Sequences, FiniteSets, TLC

\* Bounds of the explored inputs.
MaxValue == 7          \* cell values offered to minterms / dontCares: 0..MaxValue
MaxWidth == 3          \* largest valid numInputs explored

\* Program constants.
MIN_INPUTS == 2
MAX_INPUTS == 6

DEFAULT_VARS == << <<"A">>, <<"B">>, <<"C">>, <<"D">>, <<"E">>, <<"F">> >>

ERROR_MESSAGE == "numInputs must be between 2 and 6."
BAD_REQUEST_MESSAGE == "numInputs (number) and minterms (number[]) are required."

\* The value of an absent property / an out-of-bounds string index, rendered
\* by string concatenation as the text 'undefined'.
UNDEFINED == "undefined"
UndefinedText == <<"u","n","d","e","f","i","n","e","d">>

\* combine's null.  An empty string would be falsy in `if (comb)` as well.
Null == <<>>

------------------------------------------------------------------------------
(* Generic helpers for JavaScript arrays, Sets and Maps *)

Range(s) == {s[i] : i \in 1..Len(s)}

Min(S) == CHOOSE x \in S : \A y \in S : x <= y

RECURSIVE SortAsc(_)
\* Array.from(new Set(xs)).sort((a,b)=>a-b) applied to the set of elements
SortAsc(S) == IF S = {} THEN <<>>
              ELSE LET m == Min(S) IN <<m>> \o SortAsc(S \ {m})

RECURSIVE Pow2(_)
Pow2(k) == IF k <= 0 THEN 1 ELSE 2 * Pow2(k - 1)

RECURSIVE Concat(_)
\* flattening of an array of arrays
Concat(ss) == IF ss = <<>> THEN <<>> ELSE Head(ss) \o Concat(Tail(ss))

\* s[i] of the source, 0-based i there is i-1 here
CharAt(s, i) == IF i >= 1 /\ i <= Len(s) THEN s[i] ELSE UNDEFINED

\* Map<number, T[]> kept as the sequence of its entries in insertion order
MapKeys(map) == [i \in 1..Len(map) |-> map[i].key]
MapHas(map, k) == \E i \in 1..Len(map) : map[i].key = k
\* map.get(k) ?? []
MapGet(map, k) == IF MapHas(map, k)
                  THEN (CHOOSE e \in Range(map) : e.key = k).arr
                  ELSE <<>>
MapSet(map, k, arr) == IF MapHas(map, k)
                       THEN [i \in 1..Len(map) |->
                               IF map[i].key = k THEN [key |-> k, arr |-> arr] ELSE map[i]]
                       ELSE Append(map, [key |-> k, arr |-> arr])

------------------------------------------------------------------------------
(* toBinary, countOnes, combine *)

Digit(d) == IF d = 1 THEN "1" ELSE "0"

RECURSIVE ToString2(_)
\* n.toString(2) for a non-negative integer
ToString2(n) == IF n < 2 THEN <<Digit(n)>>
                ELSE ToString2(n \div 2) \o <<Digit(n % 2)>>

\* s.padStart(width, ch): never shortens s
PadStart(s, width, ch) == IF Len(s) >= width THEN s
                          ELSE [i \in 1..(width - Len(s)) |-> ch] \o s

toBinary(n, width) == PadStart(ToString2(n), width, "0")

countOnes(s) == Cardinality({i \in 1..Len(s) : s[i] = "1"})

RECURSIVE CombineFrom(_, _, _, _, _)
\* the loop of combine from position i, with the diff and out built so far
CombineFrom(a, b, i, diff, out) ==
    IF i > Len(a) THEN (IF diff = 1 THEN out ELSE Null)
    ELSE LET ca == a[i]
             cb == CharAt(b, i)
         IN  IF ca = cb THEN CombineFrom(a, b, i + 1, diff, out \o <<ca>>)
             ELSE IF ca # "-" /\ cb # "-"
                  THEN (IF diff + 1 > 1 THEN Null
                        ELSE CombineFrom(a, b, i + 1, diff + 1, out \o <<"-">>))
                  ELSE Null

\* combine without the limit of one differing position
combine_AnyDifference(a, b) ==
    LET diffs == {i \in 1..Len(a) : a[i] # CharAt(b, i)}
    IN  IF diffs # {} /\ \A i \in diffs : a[i] # "-" /\ CharAt(b, i) # "-"
        THEN [i \in 1..Len(a) |-> IF i \in diffs THEN "-" ELSE a[i]]
        ELSE Null

combine(a, b) == CombineFrom(a, b, 1, 0, <<>>)

RECURSIVE UniqueFrom(_, _, _)
UniqueFrom(imps, i, res) ==
    IF i > Len(imps) THEN res
    ELSE UniqueFrom(imps, i + 1,
                    IF \E x \in Range(res) : x.bits = imps[i].bits
                    THEN res ELSE Append(res, imps[i]))

uniqueByBits(imps) == UniqueFrom(imps, 1, <<>>)

coveredBy(bits, m, width) ==
    LET b == toBinary(m, width)
    IN  \A i \in 1..width : CharAt(bits, i) = "-" \/ CharAt(bits, i) = CharAt(b, i)

expandCoverage(bits, universe, width) ==
    SelectSeq(universe, LAMBDA m : coveredBy(bits, m, width))

------------------------------------------------------------------------------
(* Rendering *)

RECURSIVE Join(_, _)
\* arr.join(sep); an undefined element is kept as the empty string it joins as
Join(arr, sep) == IF arr = <<>> THEN <<>>
                  ELSE IF Len(arr) = 1 THEN arr[1]
                  ELSE arr[1] \o sep \o Join(Tail(arr), sep)

\* vars[i] as it enters an array that is joined: undefined joins as ''
VarPushed(vars, i) == IF i <= Len(vars) THEN vars[i] ELSE <<>>
\* vars[i] as it enters a string concatenation: undefined reads 'undefined'
VarText(vars, i) == IF i <= Len(vars) THEN vars[i] ELSE UndefinedText

Literal(bits, vars, i) ==
    IF bits[i] = "1" THEN VarPushed(vars, i) ELSE VarText(vars, i) \o <<"'">>

LiteralLatex(bits, vars, i) ==
    IF bits[i] = "1" THEN VarPushed(vars, i)
    ELSE <<"\\","o","v","e","r","l","i","n","e","{">> \o VarText(vars, i) \o <<"}">>

\* the positions of bits that hold a concrete character, ascending
ConcretePositions(bits) == SortAsc({i \in 1..Len(bits) : bits[i] # "-"})

\* formatImplicant without the constant 1 of a term that holds no literal
formatImplicant_NoConstant(bits, vars) ==
    LET pos == ConcretePositions(bits)
        out == [k \in 1..Len(pos) |-> Literal(bits, vars, pos[k])]
    IN  Join(out, <<>>)

formatImplicant(bits, vars) ==
    LET pos == ConcretePositions(bits)
        out == [k \in 1..Len(pos) |-> Literal(bits, vars, pos[k])]
    IN  IF Len(out) = 0 THEN <<"1">> ELSE Join(out, <<>>)

formatImplicantLatex(bits, vars) ==
    LET pos == ConcretePositions(bits)
        out == [k \in 1..Len(pos) |-> LiteralLatex(bits, vars, pos[k])]
    IN  IF Len(out) # 0 THEN Join(out, <<" ">>) ELSE <<"1">>

PlusSep == <<" ", "+", " ">>
LatexOpen == <<"$", "F", " ", "=", " ">>
LatexClose == <<"$">>

------------------------------------------------------------------------------
(* Petrick's method *)

\* isSubset with its arguments taken the other way round
isSubset_Swapped(a, b) == Range(b) \subseteq Range(a)

isSubset(a, b) == Range(a) \subseteq Range(b)

RECURSIVE SortByLengthFrom(_, _, _)
\* sets.sort((a,b)=>a.length-b.length): a stable sort by length
SortByLengthFrom(sets, len, maxLen) ==
    IF len > maxLen THEN <<>>
    ELSE SelectSeq(sets, LAMBDA s : Len(s) = len) \o SortByLengthFrom(sets, len + 1, maxLen)

MaxLength(sets) == IF sets = <<>> THEN 0
                   ELSE CHOOSE l \in {Len(s) : s \in Range(sets)} :
                            \A s \in Range(sets) : Len(s) <= l

SortByLength(sets) == SortByLengthFrom(sets, 0, MaxLength(sets))

RemoveAt(s, i) == [j \in 1..(Len(s) - 1) |-> IF j < i THEN s[j] ELSE s[j + 1]]

RECURSIVE Dominance(_, _, _)
\* the inner loop of minimizeSets over unique from position i: the unique
\* list after the splices, and whether s was found dominated
Dominance(unique, i, s) ==
    IF i > Len(unique) THEN [unique |-> unique, dominated |-> FALSE]
    ELSE IF isSubset(unique[i], s) THEN [unique |-> unique, dominated |-> TRUE]
    ELSE IF isSubset(s, unique[i]) THEN Dominance(RemoveAt(unique, i), i, s)
    ELSE Dominance(unique, i + 1, s)

RECURSIVE MinimizeFrom(_, _, _, _)
MinimizeFrom(sets, k, unique, seen) ==
    IF k > Len(sets) THEN unique
    ELSE LET s == sets[k]
         IN  IF s \in seen THEN MinimizeFrom(sets, k + 1, unique, seen)
             ELSE LET d == Dominance(unique, 1, s)
                  IN  IF d.dominated
                      THEN MinimizeFrom(sets, k + 1, d.unique, seen)
                      ELSE MinimizeFrom(sets, k + 1, Append(d.unique, s), seen \cup {s})

minimizeSets(sets) == MinimizeFrom(SortByLength(sets), 1, <<>>, {})

\* one iteration of the loop over coverSets: the cross product of the
\* solutions with the choices of one clause, then minimizeSets
FoldClause(solutions, choices) ==
    LET next == Concat([si \in 1..Len(solutions) |->
                          [ci \in 1..Len(choices) |->
                             SortAsc(Range(solutions[si]) \cup {choices[ci]})]])
    IN  minimizeSets(next)

\* the pick with the comparison of the final sort reversed
PickSolution_Longest(solutions) ==
    LET sorted == SortByLength(solutions)
    IN  IF Len(sorted) # 0 THEN sorted[Len(sorted)] ELSE <<>>

\* the end of petricksMethod: the first of the shortest solutions
PickSolution(solutions) ==
    LET sorted == SortByLength(solutions)
    IN  IF Len(sorted) # 0 THEN sorted[1] ELSE <<>>

RECURSIVE FoldAll(_, _, _)
FoldAll(coverSets, k, solutions) ==
    IF k > Len(coverSets) THEN solutions
    ELSE FoldAll(coverSets, k + 1, FoldClause(solutions, coverSets[k]))

petricksMethod(coverSets) == PickSolution(FoldAll(coverSets, 1, << <<>> >>))

------------------------------------------------------------------------------
(* The combination rounds of minimizeKMapJS *)

\* groups built from the universe, by ones count, in insertion order
RECURSIVE InitGroupsFrom(_, _, _, _)
InitGroupsFrom(universe, k, width, groups) ==
    IF k > Len(universe) THEN groups
    ELSE LET m    == universe[k]
             bits == toBinary(m, width)
             ones == countOnes(bits)
             imp  == [bits |-> bits, covered |-> <<m>>]
         IN  InitGroupsFrom(universe, k + 1, width,
                            MapSet(groups, ones, Append(MapGet(groups, ones), imp)))

InitGroups(universe, width) == InitGroupsFrom(universe, 1, width, <<>>)

\* the (a, b) pairs the three nested loops visit, in the order visited
PairsOf(gA, gB) ==
    [k \in 1..(Len(gA) * Len(gB)) |->
        [a |-> gA[((k - 1) \div Len(gB)) + 1], b |-> gB[((k - 1) % Len(gB)) + 1]]]

VisitedPairs(currentGroups) ==
    LET keys == SortAsc(Range(MapKeys(currentGroups)))
    IN  Concat([gi \in 1..(Len(keys) - 1) |->
                  PairsOf(MapGet(currentGroups, keys[gi]),
                          MapGet(currentGroups, keys[gi + 1]))])

\* the body of the innermost loop for one pair
CombinePair(acc, a, b) ==
    LET comb == combine(a.bits, b.bits)
    IN  IF comb # Null
        THEN LET ones == countOnes(comb)
                 imp  == [bits |-> comb,
                          covered |-> SortAsc(Range(a.covered) \cup Range(b.covered))]
                 arr  == MapGet(acc.nextGroups, ones)
                 arr2 == IF \E x \in Range(arr) : x.bits = imp.bits
                         THEN arr ELSE Append(arr, imp)
             IN  [nextGroups  |-> MapSet(acc.nextGroups, ones, arr2),
                  taken       |-> acc.taken \cup {a.bits, b.bits},
                  anyCombined |-> TRUE]
        ELSE acc

RECURSIVE CombineFold(_, _, _)
CombineFold(pairs, k, acc) ==
    IF k > Len(pairs) THEN acc
    ELSE CombineFold(pairs, k + 1, CombinePair(acc, pairs[k].a, pairs[k].b))

\* the round with anyCombined starting out true
CombineAll_AlwaysCombined(currentGroups) ==
    CombineFold(VisitedPairs(currentGroups), 1,
                [nextGroups |-> <<>>, taken |-> {}, anyCombined |-> TRUE])

CombineAll(currentGroups) ==
    CombineFold(VisitedPairs(currentGroups), 1,
                [nextGroups |-> <<>>, taken |-> {}, anyCombined |-> FALSE])

RECURSIVE CollectFrom(_, _, _, _)
\* the implicants of this round that no merge took, added to allPrime once
CollectFrom(imps, k, taken, primesSoFar) ==
    IF k > Len(imps) THEN primesSoFar
    ELSE CollectFrom(imps, k + 1, taken,
                     IF imps[k].bits \notin taken
                        /\ ~ \E x \in Range(primesSoFar) : x.bits = imps[k].bits
                     THEN Append(primesSoFar, imps[k]) ELSE primesSoFar)

GroupMembers(groups) == Concat([i \in 1..Len(groups) |-> groups[i].arr])

\* the collection without the test of taken
CollectPrimes_KeepTaken(currentGroups, taken, primesSoFar) ==
    CollectFrom(GroupMembers(currentGroups), 1, {}, primesSoFar)

CollectPrimes(currentGroups, taken, primesSoFar) ==
    CollectFrom(GroupMembers(currentGroups), 1, taken, primesSoFar)

------------------------------------------------------------------------------
(* Chart, essential implicants *)

PrimeChart(primesFound, minterms, width) ==
    LET u == uniqueByBits(primesFound)
    IN  [i \in 1..Len(u) |->
            [bits |-> u[i].bits, covered |-> expandCoverage(u[i].bits, minterms, width)]]

\* mToImps.get(m) ?? []: the indices of the primes whose covered holds m, ascending
ImpsOf(primeList, m) ==
    SortAsc({i \in 1..Len(primeList) : m \in Range(primeList[i].covered)})

\* essential with imps.length <= 2 in place of === 1
EssentialOf_UpToTwo(primeList, minterms) ==
    {ImpsOf(primeList, m)[1] :
        m \in {x \in Range(minterms) : Len(ImpsOf(primeList, x)) \in {1, 2}}}

EssentialOf(primeList, minterms) ==
    {ImpsOf(primeList, m)[1] : m \in {x \in Range(minterms) : Len(ImpsOf(primeList, x)) = 1}}

CoveredMinterms(primeList, ess) ==
    UNION {Range(primeList[ei].covered) : ei \in ess}

\* remaining with the filter's negation left out
Remaining_Covered(primeList, minterms, ess) ==
    SelectSeq(minterms, LAMBDA m : m \in CoveredMinterms(primeList, ess))

Remaining(primeList, minterms, ess) ==
    SelectSeq(minterms, LAMBDA m : m \notin CoveredMinterms(primeList, ess))

------------------------------------------------------------------------------
(* Requests *)

Values == 0..MaxValue

NumInputsChoices == ((MIN_INPUTS - 1)..MaxWidth) \cup {MAX_INPUTS + 1}

\* A list as a caller may send it: descending, the smallest value given twice.
InputList(S) ==
    LET asc == SortAsc(S)
    IN  [i \in 1..Len(asc) |-> asc[Len(asc) + 1 - i]]
        \o (IF S = {} THEN <<>> ELSE <<asc[1]>>)

\* The values a request may list both as a minterm and as a don't-care.
BothValues == {0}

\* A body of the shape POST passes on: M the values listed as minterms only,
\* D as don't-cares only, B as both; dontCares itself may be left out.
TypedRequest(n, M, D, B, h) ==
    [typed |-> TRUE, numInputs |-> n, minterms |-> InputList(M \cup B),
     hasDontCares |-> h, dontCares |-> IF h THEN InputList(D \cup B) ELSE <<>>]

\* A body POST answers 400: numInputs no number, or minterms no array.
UntypedRequest ==
    [typed |-> FALSE, numInputs |-> MIN_INPUTS, minterms |-> <<>>,
     hasDontCares |-> FALSE, dontCares |-> <<>>]

\* opts.vars left out of the request
NoVars == [given |-> FALSE, names |-> <<>>]

VarChoices ==
    {NoVars,
     [given |-> TRUE,  names |-> << <<"X">>, <<"Y">>, <<"Z">> >>],
     [given |-> TRUE,  names |-> << <<"P">>, <<"Q">>, <<"R">>, <<"S">>, <<"T">>, <<"U">>, <<"V">> >>]}

\* line 160
EffectiveVars(v, width) ==
    IF v.given /\ Len(v.names) >= width THEN v.names
    ELSE SubSeq(DEFAULT_VARS, 1, IF width < Len(DEFAULT_VARS) THEN width ELSE Len(DEFAULT_VARS))

NoResult == [none |-> TRUE]
NoResponse == [none |-> TRUE]

------------------------------------------------------------------------------
(* State *)

VARIABLES
    pc,             \* where the call stands
    request,        \* the parsed request body
    minterms,       \* line 161
    dontCares,      \* line 162
    universe,       \* line 163
    currentGroups,  \* line 178
    allPrime,       \* line 177
    rounds,         \* iterations of the while loop begun so far
    primes,         \* line 219
    essential,      \* line 235, as 1-based indices into primes
    remaining,      \* line 244
    solutions,      \* petricksMethod's solutions
    folded,         \* clauses of coverSets folded so far
    optVars,        \* opts.vars, as line 160 reads it
    result,         \* the SolveResult returned
    response        \* what POST answers

vars == <<pc, request, minterms, dontCares, universe, currentGroups, allPrime,
          rounds, primes, essential, remaining, solutions, folded, optVars, result,
          response>>

width == request.numInputs

Init ==
    /\ \/ request = UntypedRequest
       \/ \E n \in NumInputsChoices, M \in SUBSET Values :
            \E D \in SUBSET (Values \ M) :
              \E B \in SUBSET (BothValues \ (M \cup D)), h \in BOOLEAN :
                /\ h \/ (D \cup B) = {}
                /\ request = TypedRequest(n, M, D, B, h)
    /\ pc = "received"
    /\ minterms = <<>>
    /\ dontCares = <<>>
    /\ universe = <<>>
    /\ currentGroups = <<>>
    /\ allPrime = <<>>
    /\ rounds = 0
    /\ primes = <<>>
    /\ essential = {}
    /\ remaining = <<>>
    /\ solutions = <<>>
    /\ folded = 0
    /\ optVars = NoVars
    /\ result = NoResult
    /\ response = NoResponse

\* the range test with its lower limit one too low
ValidWidth_FromOne(w) == ~ (w < MIN_INPUTS - 1 \/ w > MAX_INPUTS)

ValidWidth(w) == ~ (w < MIN_INPUTS \/ w > MAX_INPUTS)

\* POST, line 9-11: a body of the wrong shape is answered 400
Reject ==
    /\ pc = "received"
    /\ ~ request.typed
    /\ pc' = "rejected"
    /\ response' = [status |-> 400, error |-> BAD_REQUEST_MESSAGE]
    /\ UNCHANGED <<request, minterms, dontCares, universe, currentGroups, allPrime,
                   rounds, primes, essential, remaining, solutions, folded, optVars, result>>

\* lines 157-159, and POST's catch: the error is answered 500
Throw ==
    /\ pc = "received"
    /\ request.typed
    /\ ~ ValidWidth(width)
    /\ pc' = "thrown"
    /\ response' = [status |-> 500, error |-> ERROR_MESSAGE]
    /\ UNCHANGED <<request, minterms, dontCares, universe, currentGroups, allPrime,
                   rounds, primes, essential, remaining, solutions, folded, optVars, result>>

\* lines 161-178: normalise the lists, build the first groups
Start ==
    /\ pc = "received"
    /\ request.typed
    /\ ValidWidth(width)
    /\ LET ms == SortAsc(Range(request.minterms))
           dc == SortAsc(Range(IF request.hasDontCares THEN request.dontCares ELSE <<>>))
           un == SortAsc(Range(ms) \cup Range(dc))
       IN  /\ minterms' = ms
           /\ dontCares' = dc
           /\ universe' = un
           /\ currentGroups' = InitGroups(un, width)
    /\ allPrime' = <<>>
    /\ rounds' = 0
    /\ pc' = "combine"
    /\ UNCHANGED <<request, primes, essential, remaining, solutions, folded,
                   optVars, result, response>>

\* one iteration of the while loop, lines 179-216
CombineRound ==
    /\ pc = "combine"
    /\ LET r == CombineAll(currentGroups)
       IN  /\ allPrime' = CollectPrimes(currentGroups, r.taken, allPrime)
           /\ IF r.anyCombined
              THEN /\ currentGroups' = r.nextGroups
                   /\ pc' = "combine"
              ELSE /\ currentGroups' = currentGroups
                   /\ pc' = "chart"
    /\ rounds' = rounds + 1
    /\ UNCHANGED <<request, minterms, dontCares, universe, primes, essential,
                   remaining, solutions, folded, optVars, result, response>>

\* lines 218-247, and line 110 when petricksMethod is called
Chart ==
    /\ pc = "chart"
    /\ LET pl  == PrimeChart(allPrime, minterms, width)
           ess == EssentialOf(pl, minterms)
           rem == Remaining(pl, minterms, ess)
       IN  /\ primes' = pl
           /\ essential' = ess
           /\ remaining' = rem
           /\ solutions' = IF Len(rem) > 0 THEN << <<>> >> ELSE <<>>
           /\ pc' = IF Len(rem) > 0 THEN "petrick" ELSE "render"
    /\ folded' = 0
    /\ UNCHANGED <<request, minterms, dontCares, universe, currentGroups, allPrime,
                   rounds, optVars, result, response>>

\* coverSets[k] of line 247
CoverSet(k) == ImpsOf(primes, remaining[k])

\* one iteration of the loop of petricksMethod, lines 112-121
PetrickFold ==
    /\ pc = "petrick"
    /\ folded < Len(remaining)
    /\ solutions' = FoldClause(solutions, CoverSet(folded + 1))
    /\ folded' = folded + 1
    /\ pc' = IF folded + 1 = Len(remaining) THEN "render" ELSE "petrick"
    /\ UNCHANGED <<request, minterms, dontCares, universe, currentGroups, allPrime,
                   rounds, primes, essential, remaining, optVars, result, response>>

\* lines 245-250: essential, and petricksMethod's pick when it was called
Chosen == essential \cup (IF Len(remaining) > 0 THEN Range(PickSolution(solutions)) ELSE {})

Selected ==
    LET idx == SortAsc(Chosen)
    IN  [k \in 1..Len(idx) |-> primes[idx[k]]]

Expression(selected, names) ==
    LET exprTerms == [k \in 1..Len(selected) |-> formatImplicant(selected[k].bits, names)]
        joined == Join(exprTerms, PlusSep)
    IN  IF joined = <<>> THEN <<"0">> ELSE joined

Latex(selected, names) ==
    LET latexTerms == [k \in 1..Len(selected) |-> formatImplicantLatex(selected[k].bits, names)]
    IN  LatexOpen \o Join(latexTerms, PlusSep) \o LatexClose

\* lines 123-125 and 252-267, with the vars of line 160, and POST's answer
Render ==
    /\ pc = "render"
    /\ \E v \in VarChoices :
         LET names == EffectiveVars(v, width)
             ess   == SortAsc(essential)
         IN  /\ optVars' = v
             /\ result' = [numInputs |-> width,
                           primeImplicants |-> primes,
                           essentialPrimeImplicants |-> [k \in 1..Len(ess) |-> primes[ess[k]]],
                           selectedImplicants |-> Selected,
                           expression |-> Expression(Selected, names),
                           latex |-> Latex(Selected, names)]
    /\ response' = [status |-> 200, body |-> result']
    /\ pc' = "returned"
    /\ UNCHANGED <<request, minterms, dontCares, universe, currentGroups, allPrime,
                   rounds, primes, essential, remaining, solutions, folded>>

Next ==
    \/ Reject
    \/ Throw
    \/ Start
    \/ CombineRound
    \/ Chart
    \/ PetrickFold
    \/ Render

Spec == Init /\ [][Next]_vars

------------------------------------------------------------------------------
(* What the claims speak of *)

Returned == pc = "returned"

\* the required minterms and the don't-cares of the request, as sets
Required == Range(request.minterms)
DontCareSet == Range(request.dontCares)

\* every listed value fits in numInputs bits
InRange == \A v \in Required \cup DontCareSet : v < Pow2(width)

ValidRequest == request.typed /\ width \in MIN_INPUTS..MAX_INPUTS /\ InRange

Cells(n) == 0..(Pow2(n) - 1)

\* bit i (1 = most significant) of v written in n bits
BitOf(v, i, n) == (v \div Pow2(n - i)) % 2

\* the product term bits is 1 at the input combination v
Matches(bits, v) ==
    \A i \in 1..Len(bits) : bits[i] = "-" \/ bits[i] = Digit(BitOf(v, i, Len(bits)))

BitsOf(imps) == {imps[i].bits : i \in 1..Len(imps)}

CoveredUnion(imps) == UNION {Range(imps[i].covered) : i \in 1..Len(imps)}

\* C1: the covered lists of the selected implicants together hold exactly the
\* required minterms: none is missing, and nothing else (no don't-care) is in.
C1_Completeness ==
    (Returned /\ ValidRequest) =>
        CoveredUnion(result.selectedImplicants) = Required

C1_Witness ==
    /\ Returned /\ ValidRequest
    /\ Len(result.selectedImplicants) >= 2
    /\ Len(remaining) > 0
    /\ DontCareSet \ Required # {}
    /\ \E i \in 1..Len(result.selectedImplicants) :
         \E d \in DontCareSet \ Required : Matches(result.selectedImplicants[i].bits, d)

\* C2: no prime implicant, and so no selected implicant, is 1 at an input
\* combination that is neither a required minterm nor a don't-care.
C2_NoAbsentCovered ==
    (Returned /\ ValidRequest) =>
        /\ \A b \in BitsOf(result.primeImplicants) \cup BitsOf(result.selectedImplicants) :
             \A v \in Cells(width) : Matches(b, v) => v \in Required \cup DontCareSet
        /\ BitsOf(result.selectedImplicants) \subseteq BitsOf(result.primeImplicants)

C2_Witness ==
    /\ Returned /\ ValidRequest
    /\ Cells(width) \ (Required \cup DontCareSet) # {}
    /\ \E b \in BitsOf(result.selectedImplicants) : \E i \in 1..Len(b) : b[i] = "-"
    /\ DontCareSet \ Required # {}

\* the primes of indices S cover every minterm of Ms
Covers(primeList, S, Ms) ==
    \A m \in Ms : \E i \in S : m \in Range(primeList[i].covered)

\* C3: petricksMethod's pick is a smallest set of primes covering the
\* remaining minterms, and no set of primes smaller than the selection covers
\* every required minterm.
C3_MinimumCardinality ==
    /\ (pc = "render" /\ ValidRequest /\ Len(remaining) > 0) =>
          LET pick == Range(PickSolution(solutions))
          IN  /\ Covers(primes, pick, Range(remaining))
              /\ \A S \in SUBSET (1..Len(primes)) :
                    Covers(primes, S, Range(remaining)) => Cardinality(S) >= Cardinality(pick)
    /\ (Returned /\ ValidRequest) =>
          \A S \in SUBSET (1..Len(result.primeImplicants)) :
             Covers(result.primeImplicants, S, Required)
                => Cardinality(S) >= Len(result.selectedImplicants)

C3_Witness ==
    /\ Returned /\ ValidRequest
    /\ Len(remaining) >= 3
    /\ Len(solutions) >= 2
    /\ \E i, j \in 1..Len(solutions) : Len(solutions[i]) # Len(solutions[j])

\* C4: a prime implicant is essential exactly when it covers some required
\* minterm that no other prime implicant covers; every essential one is selected.
SoleCover(primeList, i) ==
    \E m \in Required :
        /\ m \in Range(primeList[i].covered)
        /\ \A j \in 1..Len(primeList) : j # i => m \notin Range(primeList[j].covered)

C4_Essentiality ==
    Returned =>
        /\ \A i \in 1..Len(result.primeImplicants) :
              (result.primeImplicants[i].bits \in BitsOf(result.essentialPrimeImplicants))
                 <=> SoleCover(result.primeImplicants, i)
        /\ BitsOf(result.essentialPrimeImplicants) \subseteq BitsOf(result.primeImplicants)
        /\ BitsOf(result.essentialPrimeImplicants) \subseteq BitsOf(result.selectedImplicants)

C4_Witness ==
    /\ Returned /\ ValidRequest
    /\ Len(result.essentialPrimeImplicants) >= 1
    /\ Len(result.essentialPrimeImplicants) < Len(result.selectedImplicants)
    /\ Len(result.selectedImplicants) < Len(result.primeImplicants)

\* C5: a numInputs below 2 or above 6 ends the call with the error and no
\* result, whatever the lists hold; a numInputs of 2..6 with in-range lists
\* never ends in the error, and what it returns has every field of the result.
CompleteResult(r) ==
    /\ r # NoResult
    /\ DOMAIN r = {"numInputs", "primeImplicants", "essentialPrimeImplicants",
                   "selectedImplicants", "expression", "latex"}
    /\ r.numInputs = width
    /\ Len(r.expression) > 0
    /\ Len(r.latex) > 0

C5_ConfigurationError ==
    /\ (request.typed /\ (width < MIN_INPUTS \/ width > MAX_INPUTS)) =>
          /\ pc \in {"received", "thrown"}
          /\ result = NoResult
          /\ pc = "thrown" => response = [status |-> 500, error |-> ERROR_MESSAGE]
    /\ ValidRequest =>
          /\ pc # "thrown"
          /\ Returned => (CompleteResult(result) /\ response = [status |-> 200, body |-> result])
          /\ ~ Returned => result = NoResult

C5_Witness ==
    /\ pc = "thrown"
    /\ width > MAX_INPUTS
    /\ Len(request.minterms) > 0

------------------------------------------------------------------------------
(* Rendering claims *)

IsPrefixAt(s, k, sep) ==
    /\ k + Len(sep) - 1 <= Len(s)
    /\ \A j \in 1..Len(sep) : s[k + j - 1] = sep[j]

RECURSIVE SplitFrom(_, _, _, _)
\* the pieces of s between the occurrences of sep, scanning from position k
\* with the piece cur begun
SplitFrom(s, k, sep, cur) ==
    IF k > Len(s) THEN <<cur>>
    ELSE IF IsPrefixAt(s, k, sep)
         THEN <<cur>> \o SplitFrom(s, k + Len(sep), sep, <<>>)
         ELSE SplitFrom(s, k + 1, sep, Append(cur, s[k]))

\* the ' + '-separated terms of a rendering; the empty text holds no term
Terms(s) == IF s = <<>> THEN <<>> ELSE SplitFrom(s, 1, PlusSep, <<>>)

\* the text of latex between '$F = ' and the closing '$'
LatexBody(l) == SubSeq(l, Len(LatexOpen) + 1, Len(l) - Len(LatexClose))

\* C6: expression and latex hold the same number of ' + '-separated terms, and
\* term k of each renders implicant k of selectedImplicants, an empty
\* selection included.
C6_RenderingConsistency ==
    (Returned /\ ValidRequest) =>
        LET names == EffectiveVars(optVars, width)
            sel   == result.selectedImplicants
            et    == Terms(result.expression)
            lt    == Terms(LatexBody(result.latex))
        IN  /\ Len(et) = Len(lt)
            /\ Len(et) = Len(sel)
            /\ \A k \in 1..Len(sel) :
                  /\ et[k] = formatImplicant(sel[k].bits, names)
                  /\ lt[k] = formatImplicantLatex(sel[k].bits, names)

\* C6 where the selection is not empty
C6_NonEmptySelectionConsistent ==
    (Returned /\ ValidRequest /\ Len(result.selectedImplicants) > 0) =>
        LET names == EffectiveVars(optVars, width)
            sel   == result.selectedImplicants
            et    == Terms(result.expression)
            lt    == Terms(LatexBody(result.latex))
        IN  /\ Len(et) = Len(lt)
            /\ Len(et) = Len(sel)
            /\ \A k \in 1..Len(sel) :
                  /\ et[k] = formatImplicant(sel[k].bits, names)
                  /\ lt[k] = formatImplicantLatex(sel[k].bits, names)

\* C7: a minterm of 2^numInputs or more is in the covered list of no prime
\* and no selected implicant, and no bit pattern covers it.
OutOfRangeMinterms == {m \in Required : m >= Pow2(width)}

C7_OutOfRangeExcluded ==
    (Returned /\ width \in MIN_INPUTS..MAX_INPUTS) =>
        \A m \in OutOfRangeMinterms :
            /\ m \notin CoveredUnion(result.primeImplicants)
            /\ m \notin CoveredUnion(result.selectedImplicants)
            /\ \A b \in BitsOf(result.primeImplicants) : ~ coveredBy(b, m, width)

\* C7, the part that holds: the call does not end in an error
C7_OutOfRangeNoCrash ==
    (request.typed /\ width \in MIN_INPUTS..MAX_INPUTS /\ OutOfRangeMinterms # {}) =>
        pc # "thrown"

\* C8: when every input combination is a minterm or a don't-care and at least
\* one is a minterm, the selection is the one all-dash implicant, expression
\* is '1' and latex is '$F = 1$', whatever vars were sent.
AllDash(n) == [i \in 1..n |-> "-"]

Tautology == ValidRequest /\ Required # {} /\ Cells(width) \subseteq (Required \cup DontCareSet)

C8_Tautology ==
    (Returned /\ Tautology) =>
        /\ Len(result.selectedImplicants) = 1
        /\ result.selectedImplicants[1].bits = AllDash(width)
        /\ result.expression = <<"1">>
        /\ result.latex = <<"$", "F", " ", "=", " ", "1", "$">>

C8_Witness ==
    /\ Returned /\ Tautology
    /\ width = MIN_INPUTS + 1
    /\ DontCareSet \ Required # {}
    /\ optVars.given

------------------------------------------------------------------------------
(* Generation claims *)

Patterns(n) == [1..n -> {"0", "1", "-"}]

\* the pattern is 1 only at values of U
IsCube(b, U) == \A v \in Cells(Len(b)) : Matches(b, v) => v \in U

\* b with one concrete position replaced by '-'
Widenings(b) == {[b EXCEPT ![i] = "-"] : i \in {j \in 1..Len(b) : b[j] # "-"}}

Cubes(n, U) == {b \in Patterns(n) : IsCube(b, U)}

\* the cubes of U that no widening keeps a cube
MaximalCubes(n, U) ==
    LET cs == Cubes(n, U)
    IN  {b \in cs : \A w \in Widenings(b) : w \notin cs}

\* C9: the bit patterns of primeImplicants are pairwise distinct and are
\* exactly the maximal cubes of minterms \cup dontCares.
C9_PrimesExact ==
    /\ (pc \in {"petrick", "render"} /\ folded = 0 /\ ValidRequest) =>
          /\ Cardinality(BitsOf(primes)) = Len(primes)
          /\ BitsOf(primes) = MaximalCubes(width, Required \cup DontCareSet)
    /\ Returned => result.primeImplicants = primes

C9_Witness ==
    /\ Returned /\ ValidRequest
    /\ Len(result.primeImplicants) >= 3
    /\ rounds >= 3
    /\ Cells(width) \ (Required \cup DontCareSet) # {}
    /\ DontCareSet \ Required # {}

Dashes(b) == Cardinality({i \in 1..Len(b) : b[i] = "-"})

Members(groups) == Range(GroupMembers(groups))

\* one iteration of the loop: the count of rounds grows by one, and every
\* implicant the round produced has one more '-' than the two it was merged from
OneMoreDash ==
    (pc = "combine" /\ ValidRequest) =>
        /\ rounds' = rounds + 1
        /\ pc' \in {"combine", "chart"}
        /\ pc' = "combine" =>
             \A x \in Members(currentGroups') :
                /\ Dashes(x.bits) = rounds'
                /\ \E a, b \in Members(currentGroups) :
                      /\ combine(a.bits, b.bits) = x.bits
                      /\ Dashes(x.bits) = Dashes(a.bits) + 1
                      /\ Dashes(x.bits) = Dashes(b.bits) + 1

\* C10 as stated: the loop ends, each merge adds one '-', and the loop body
\* runs numInputs times at most.
C10_AtMostNumInputsRounds ==
    ValidRequest => rounds <= width

\* C10: each merge adds one '-', and the loop ends: every iteration counts one
\* round more, and the loop body runs numInputs + 1 times at most, the last
\* of them without a merge.
C10_MergeLoopTerminates ==
    /\ [](ValidRequest => rounds <= width + 1)
    /\ [](ValidRequest /\ pc = "combine" => rounds <= width)
    /\ [][OneMoreDash]_vars

C10_Witness ==
    /\ ValidRequest
    /\ pc = "chart"
    /\ rounds = width + 1
    /\ Members(currentGroups) = {[bits |-> AllDash(width), covered |-> SortAsc(Required \cup DontCareSet)]}

------------------------------------------------------------------------------
(* Petrick fold *)

\* the clauses of coverSets folded so far, each as the set of its candidates
FoldedClauses == {Range(CoverSet(k)) : k \in 1..folded}

\* the set S of prime indices holds a candidate of every clause folded so far
Satisfies(S) == \A c \in FoldedClauses : S \cap c # {}

StrictlyAscending(s) == \A i \in 1..(Len(s) - 1) : s[i] < s[i + 1]

AfterFold == pc \in {"petrick", "render"} /\ folded >= 1

\* C11: after each fold (a) every retained combination holds a candidate of
\* every clause folded so far, (b) no retained combination is a superset of,
\* or equal to, another one, and (c) a combination of the smallest size that
\* satisfies the clauses folded so far is still retained.
C11_PetrickFoldInvariant ==
    AfterFold =>
        /\ \A i \in 1..Len(solutions) :
              /\ Satisfies(Range(solutions[i]))
              /\ StrictlyAscending(solutions[i])
        /\ \A i, j \in 1..Len(solutions) :
              i # j => ~ (Range(solutions[j]) \subseteq Range(solutions[i]))
        /\ \A S \in SUBSET (1..Len(primes)) :
              Satisfies(S) =>
                 \E i \in 1..Len(solutions) : Len(solutions[i]) <= Cardinality(S)

\* a fold after which something satisfying was pruned as a superset
C11_Witness ==
    /\ AfterFold /\ ValidRequest
    /\ folded >= 2
    /\ Len(solutions) >= 2
    /\ \E S \in SUBSET (UNION FoldedClauses) :
          /\ Satisfies(S)
          /\ Cardinality(S) <= folded
          /\ \E i \in 1..Len(solutions) :
                Range(solutions[i]) \subseteq S /\ Range(solutions[i]) # S

------------------------------------------------------------------------------
(* Bit-pattern width *)

BitChars == {"0", "1", "-"}

WellFormed(bits) == Len(bits) = width /\ Range(bits) \subseteq BitChars

\* every implicant the run holds: initial and merged ones, primes, selected
Created ==
    Members(currentGroups) \cup Range(allPrime) \cup Range(primes)
        \cup (IF Returned
              THEN Range(result.primeImplicants)
                      \cup Range(result.essentialPrimeImplicants)
                      \cup Range(result.selectedImplicants)
              ELSE {})

AcceptedWidth == request.typed /\ width \in MIN_INPUTS..MAX_INPUTS

\* C12: in every run with numInputs in 2..6 and any lists of non-negative
\* integers, every bit pattern of every implicant created is a string over
\* 0, 1 and - of length exactly numInputs.
C12_WidthInvariant ==
    AcceptedWidth => \A imp \in Created : WellFormed(imp.bits)

\* C12 for requests whose values all lie below 2^numInputs: every bit
\* pattern created has length numInputs and is written with 0, 1 and -.
C12_WidthInvariantInRange ==
    ValidRequest => \A imp \in Created : WellFormed(imp.bits)

====
